---- MODULE Spec2Model ----
(***************************************************************************)
(* Model of src/src/concurrent_loading.rs (harmony):                       *)
(*   load_harmony_encoding_safe       - online load behind DOWNLOAD_MUTEX  *)
(*   load_harmony_encoding_from_file  - offline load from a local file     *)
(* The collaborators Encoding::from_name / special_tokens / pattern /      *)
(* load_from_name, load_tiktoken_vocab_file and CoreBPE::new live in       *)
(* modules of the crate that are not part of the checked sources; they are *)
(* modelled from their contracts in the design document.                   *)
(***************************************************************************)
EXTENDS Integers, Sequences, FiniteSets, TLC

(***************************************************************************)
(* Bounds of the checked workload.                                         *)
(***************************************************************************)
NumThreads == 2
MaxFileCalls == 2

Threads == 1..NumThreads
None == "none"
NoThread == 0

(***************************************************************************)
(* Reserved-id intervals written in the match arms.                        *)
(***************************************************************************)
HarmonyReservedLo == 200014
HarmonyReservedHi == 201088
BaseReservedLo == 199998
BaseReservedHi == 201088

(***************************************************************************)
(* EncodingCatalog: Encoding::from_name, special_tokens(), pattern().      *)
(* The catalog's contents are not in the checked sources.  Two candidate   *)
(* catalogs are explored: in the first every base special id lies outside  *)
(* the reserved intervals, in the second the O200kBase base specials lie   *)
(* inside the interval of the O200kBase arm.                               *)
(***************************************************************************)
CatalogIds == {"disjoint", "overlapping"}

Variants == {"O200kHarmony", "O200kBase", "Cl100kBase"}

EncodingNames == {"o200k_harmony", "o200k_base", "cl100k_base", "bogus"}

from_name(n) ==
    CASE n = "o200k_harmony" -> "O200kHarmony"
      [] n = "o200k_base"    -> "O200kBase"
      [] n = "cl100k_base"   -> "Cl100kBase"
      [] OTHER               -> None

special_tokens(cat, e) ==
    CASE e = "O200kHarmony" ->
           << <<"<|startoftext|>", 199998>>, <<"<|endoftext|>", 199999>>,
              <<"<|reserved_200000|>", 200000>>, <<"<|return|>", 200002>> >>
      [] e = "O200kBase" /\ cat = "disjoint" ->
           << <<"<|endoftext|>", 199997>>, <<"<|endofprompt|>", 201089>> >>
      [] e = "O200kBase" /\ cat = "overlapping" ->
           << <<"<|endoftext|>", 199999>>, <<"<|endofprompt|>", 200018>> >>
      [] OTHER ->
           << <<"<|endoftext|>", 100257>>, <<"<|endofprompt|>", 100276>> >>

pattern(e) == IF e = "Cl100kBase" THEN "cl100k_pattern" ELSE "o200k_pattern"

(***************************************************************************)
(* VocabFileParser: load_tiktoken_vocab_file(path, None).  The file system *)
(* is an input: a path is absent, unparsable, or holds a vocabulary, which *)
(* is a map from token to rank.                                            *)
(***************************************************************************)
Paths == {"missing.tiktoken", "corrupt.tiktoken", "good.tiktoken", "colliding.tiktoken"}

load_tiktoken_vocab_file(p) ==
    CASE p = "missing.tiktoken" -> [ok |-> FALSE, err |-> "NotFound"]
      [] p = "corrupt.tiktoken" -> [ok |-> FALSE, err |-> "Malformed"]
      [] p = "good.tiktoken" ->
           [ok |-> TRUE, vocab |-> [a |-> 0, b |-> 1, ab |-> 2, ba |-> 3]]
      [] OTHER ->
           [ok |-> TRUE, vocab |-> [a |-> 0, b |-> 100257, ab |-> 199999, ba |-> 200500]]

VocabIds(v) == {v[k] : k \in DOMAIN v}

(***************************************************************************)
(* Assembly of the special tokens in the match arms.                       *)
(***************************************************************************)
ReservedNameWithoutId(id) == "<|reserved|>"

\* format!("<|reserved_{id}|>")
ReservedName(id) == "<|reserved_" \o ToString(id) \o "|>"

ReservedTokens(lo, hi) == [i \in 1..(hi - lo + 1) |-> <<ReservedName(lo + i - 1), lo + i - 1>>]

HarmonyReservedExclusive == ReservedTokens(HarmonyReservedLo, HarmonyReservedHi - 1)

\* (200014..=201088).map(|id| (format!("<|reserved_{id}|>"), id))
HarmonyReserved == ReservedTokens(HarmonyReservedLo, HarmonyReservedHi)

BaseReservedExclusive == ReservedTokens(BaseReservedLo, BaseReservedHi - 1)

\* (199998..=201088).map(|id| (format!("<|reserved_{id}|>"), id))
BaseReserved == ReservedTokens(BaseReservedLo, BaseReservedHi)

AssembleBaseOnly(cat, e) == special_tokens(cat, e)

AssembleReservedEverywhere(cat, e) ==
    IF e = "O200kBase" THEN special_tokens(cat, e) \o BaseReserved
                       ELSE special_tokens(cat, e) \o HarmonyReserved

AssembleSpecials(cat, e) ==
    CASE e = "O200kHarmony" -> special_tokens(cat, e) \o HarmonyReserved
      [] e = "O200kBase"    -> special_tokens(cat, e) \o BaseReserved
      [] OTHER              -> special_tokens(cat, e)

SpecialIds(s) == {s[i][2] : i \in DOMAIN s}

HasDuplicateId(s) == Cardinality(SpecialIds(s)) # Len(s)

(***************************************************************************)
(* TokenizerBuilder: CoreBPE::new(vocab, specials, pattern).  It enforces  *)
(* the id invariants and yields either a whole tokenizer or an error.      *)
(***************************************************************************)
CoreBPENew(v, s, pat) ==
    IF HasDuplicateId(s)
       THEN [ok |-> FALSE, err |-> "DuplicateSpecialId"]
    ELSE IF SpecialIds(s) \cap VocabIds(v) # {}
       THEN [ok |-> FALSE, err |-> "IdCollision"]
    ELSE [ok |-> TRUE, tok |-> [vocab |-> v, specials |-> s, pattern |-> pat, intact |-> TRUE]]

(***************************************************************************)
(* NameToTokenizerPipeline: Encoding::load_from_name(name).  It resolves   *)
(* the name, looks for the cached vocabulary, downloads and caches it if   *)
(* absent, and constructs the tokenizer from the cached file.              *)
(***************************************************************************)
OnlineNames == {"o200k_harmony", "o200k_base", "bogus"}

PipelinePcs == {"resolve", "check_cache", "download", "write_begin", "write_end", "construct"}

GuardedPcs == PipelinePcs \cup {"drop"}

NoResult == [kind |-> "none"]

Ok(tok) == [kind |-> "Ok", tok |-> tok]

Err(e, d) == [kind |-> "Err", err |-> e, detail |-> d]

VARIABLES
    catalog,     \* which candidate catalog the crate was built with
    onceInit,    \* DOWNLOAD_MUTEX: the OnceLock holds a Mutex
    initCount,   \* how many times the Mutex::new closure has run
    holder,      \* thread owning the MutexGuard, or NoThread
    poisoned,    \* the Mutex is poisoned
    cache,       \* on-disk cache entry per encoding
    dlOk,        \* successful downloads per encoding
    fileCalls,   \* offline calls issued so far
    pc,          \* position of each thread in its call
    op,          \* which entry point the thread called
    name,        \* argument name / encoding_name
    path,        \* argument path
    enc,         \* the resolved Encoding
    vocab,       \* the parsed vocabulary
    result,      \* value returned to the caller
    calls,       \* collaborators invoked by the call, in order
    fsAccess,    \* file-system accesses made by the call
    netCalls,    \* network requests made by the call
    mutexRef     \* the Mutex instance get_or_init handed to the call

shared == <<catalog, onceInit, initCount, holder, poisoned, cache, dlOk, fileCalls>>

locals == <<pc, op, name, path, enc, vocab, result, calls, fsAccess, netCalls, mutexRef>>

vars == <<catalog, onceInit, initCount, holder, poisoned, cache, dlOk, fileCalls,
          pc, op, name, path, enc, vocab, result, calls, fsAccess, netCalls, mutexRef>>

Init ==
    /\ catalog \in CatalogIds
    /\ onceInit = FALSE
    /\ initCount = 0
    /\ holder = NoThread
    /\ poisoned = FALSE
    /\ cache = [e \in Variants |-> "absent"]
    /\ dlOk = [e \in Variants |-> 0]
    /\ fileCalls = 0
    /\ pc = [t \in Threads |-> "idle"]
    /\ op = [t \in Threads |-> None]
    /\ name = [t \in Threads |-> None]
    /\ path = [t \in Threads |-> None]
    /\ enc = [t \in Threads |-> None]
    /\ vocab = [t \in Threads |-> None]
    /\ result = [t \in Threads |-> NoResult]
    /\ calls = [t \in Threads |-> <<>>]
    /\ fsAccess = [t \in Threads |-> 0]
    /\ netCalls = [t \in Threads |-> 0]
    /\ mutexRef = [t \in Threads |-> 0]

(***************************************************************************)
(* load_harmony_encoding_safe                                              *)
(***************************************************************************)
SafeStart(t, n) ==
    /\ pc[t] = "idle"
    /\ pc' = [pc EXCEPT ![t] = "get_or_init"]
    /\ op' = [op EXCEPT ![t] = "safe"]
    /\ name' = [name EXCEPT ![t] = n]
    /\ UNCHANGED mutexRef
    /\ UNCHANGED <<shared, path, enc, vocab, result, calls, fsAccess, netCalls>>

MutexRecreated == initCount + 1

\* OnceLock::get_or_init runs the closure only while the cell is empty;
\* the value is the number of the Mutex instance now in the cell
MutexInstance == IF onceInit THEN initCount ELSE initCount + 1

\* DOWNLOAD_MUTEX.get_or_init(|| Mutex::new(()))
GetOrInit(t) ==
    /\ pc[t] = "get_or_init"
    /\ onceInit' = TRUE
    /\ initCount' = MutexInstance
    /\ mutexRef' = [mutexRef EXCEPT ![t] = MutexInstance]
    /\ pc' = [pc EXCEPT ![t] = "lock"]
    /\ UNCHANGED <<catalog, holder, poisoned, cache, dlOk, fileCalls,
                   op, name, path, enc, vocab, result, calls, fsAccess, netCalls>>

MutexNeverBlocks == TRUE

\* Mutex::lock blocks while another guard is alive
MutexAvailable == holder = NoThread

GuardDroppedAtOnce(t) == NoThread

\* let _guard = ... : the guard lives to the end of the function body
GuardBinding(t) == t

PoisonRecovered == FALSE

\* lock() on a poisoned Mutex returns Err and unwrap() panics
UnwrapPanics == poisoned

\* download_mutex.lock().unwrap()
Lock(t) ==
    /\ pc[t] = "lock"
    /\ onceInit
    /\ MutexAvailable
    /\ IF UnwrapPanics
          THEN /\ pc' = [pc EXCEPT ![t] = "panicked"]
               /\ UNCHANGED <<holder, calls>>
          ELSE /\ holder' = GuardBinding(t)
               /\ pc' = [pc EXCEPT ![t] = "resolve"]
               /\ calls' = [calls EXCEPT ![t] = Append(@, "load_from_name")]
    /\ UNCHANGED mutexRef
    /\ UNCHANGED <<catalog, onceInit, initCount, poisoned, cache, dlOk, fileCalls,
                   op, name, path, enc, vocab, result, fsAccess, netCalls>>

PipeResolve(t) ==
    /\ pc[t] = "resolve"
    /\ IF from_name(name[t]) = None
          THEN /\ result' = [result EXCEPT ![t] = Err("UnknownEncodingName", name[t])]
               /\ pc' = [pc EXCEPT ![t] = "drop"]
               /\ UNCHANGED enc
          ELSE /\ enc' = [enc EXCEPT ![t] = from_name(name[t])]
               /\ pc' = [pc EXCEPT ![t] = "check_cache"]
               /\ UNCHANGED result
    /\ UNCHANGED mutexRef
    /\ UNCHANGED <<shared, op, name, path, vocab, calls, fsAccess, netCalls>>

PipeCheckCache(t) ==
    /\ pc[t] = "check_cache"
    /\ pc' = [pc EXCEPT ![t] = IF cache[enc[t]] = "absent" THEN "download" ELSE "construct"]
    /\ UNCHANGED mutexRef
    /\ UNCHANGED <<shared, op, name, path, enc, vocab, result, calls, fsAccess, netCalls>>

PipeDownload(t) ==
    /\ pc[t] = "download"
    /\ netCalls' = [netCalls EXCEPT ![t] = @ + 1]
    /\ \/ /\ dlOk' = [dlOk EXCEPT ![enc[t]] = @ + 1]
          /\ pc' = [pc EXCEPT ![t] = "write_begin"]
          /\ UNCHANGED result
       \/ /\ result' = [result EXCEPT ![t] = Err("DownloadFailed", name[t])]
          /\ pc' = [pc EXCEPT ![t] = "drop"]
          /\ UNCHANGED dlOk
    /\ UNCHANGED mutexRef
    /\ UNCHANGED <<catalog, onceInit, initCount, holder, poisoned, cache, fileCalls,
                   op, name, path, enc, vocab, calls, fsAccess>>

PipeWriteBegin(t) ==
    /\ pc[t] = "write_begin"
    /\ cache' = [cache EXCEPT ![enc[t]] = "partial"]
    /\ pc' = [pc EXCEPT ![t] = "write_end"]
    /\ UNCHANGED mutexRef
    /\ UNCHANGED <<catalog, onceInit, initCount, holder, poisoned, dlOk, fileCalls,
                   op, name, path, enc, vocab, result, calls, fsAccess, netCalls>>

PipeWriteEnd(t) ==
    /\ pc[t] = "write_end"
    /\ cache' = [cache EXCEPT ![enc[t]] = "complete"]
    /\ pc' = [pc EXCEPT ![t] = "construct"]
    /\ UNCHANGED mutexRef
    /\ UNCHANGED <<catalog, onceInit, initCount, holder, poisoned, dlOk, fileCalls,
                   op, name, path, enc, vocab, result, calls, fsAccess, netCalls>>

PipeConstruct(t) ==
    /\ pc[t] = "construct"
    /\ IF cache[enc[t]] = "complete"
          THEN result' = [result EXCEPT ![t] = Ok([source |-> enc[t], intact |-> TRUE])]
          ELSE \/ result' = [result EXCEPT ![t] = Ok([source |-> enc[t], intact |-> FALSE])]
               \/ result' = [result EXCEPT ![t] = Err("CoreBPECreationFailed", name[t])]
    /\ pc' = [pc EXCEPT ![t] = "drop"]
    /\ UNCHANGED mutexRef
    /\ UNCHANGED <<shared, op, name, path, enc, vocab, calls, fsAccess, netCalls>>

GuardKeptOnError(t) == IF result[t].kind = "Err" THEN holder ELSE NoThread

\* the MutexGuard's Drop at the end of the function body
HolderAfterDrop(t) == IF holder = t THEN NoThread ELSE holder

PipelineErrorRewrapped(r) == IF r.kind = "Err" THEN Err("CoreBPECreationFailed", r.detail) ELSE r

\* the tail expression Encoding::load_from_name(name) is the function's value
ReturnedValue(r) == r

\* end of scope: _guard is dropped and the pipeline's value is returned
Return(t) ==
    /\ pc[t] = "drop"
    /\ holder' = HolderAfterDrop(t)
    /\ result' = [result EXCEPT ![t] = ReturnedValue(@)]
    /\ pc' = [pc EXCEPT ![t] = "done"]
    /\ UNCHANGED mutexRef
    /\ UNCHANGED <<catalog, onceInit, initCount, poisoned, cache, dlOk, fileCalls,
                   op, name, path, enc, vocab, calls, fsAccess, netCalls>>

\* a panic inside the pipeline unwinds through _guard: the mutex is
\* released and poisoned
PipePanic(t) ==
    /\ pc[t] \in PipelinePcs
    /\ holder' = HolderAfterDrop(t)
    /\ poisoned' = TRUE
    /\ pc' = [pc EXCEPT ![t] = "panicked"]
    /\ UNCHANGED mutexRef
    /\ UNCHANGED <<catalog, onceInit, initCount, cache, dlOk, fileCalls,
                   op, name, path, enc, vocab, result, calls, fsAccess, netCalls>>

(***************************************************************************)
(* load_harmony_encoding_from_file                                         *)
(***************************************************************************)
FileStartSerialized(t, p, n) ==
    /\ pc[t] = "idle"
    /\ holder = NoThread
    /\ fileCalls < MaxFileCalls
    /\ fileCalls' = fileCalls + 1
    /\ pc' = [pc EXCEPT ![t] = "from_name"]
    /\ op' = [op EXCEPT ![t] = "file"]
    /\ name' = [name EXCEPT ![t] = n]
    /\ path' = [path EXCEPT ![t] = p]
    /\ UNCHANGED <<catalog, onceInit, initCount, holder, poisoned, cache, dlOk,
                   enc, vocab, result, calls, fsAccess, netCalls, mutexRef>>

\* entry of the function: no lock is taken, nothing shared is read
FileStart(t, p, n) ==
    /\ pc[t] = "idle"
    /\ fileCalls < MaxFileCalls
    /\ fileCalls' = fileCalls + 1
    /\ pc' = [pc EXCEPT ![t] = "from_name"]
    /\ op' = [op EXCEPT ![t] = "file"]
    /\ name' = [name EXCEPT ![t] = n]
    /\ path' = [path EXCEPT ![t] = p]
    /\ UNCHANGED mutexRef
    /\ UNCHANGED <<catalog, onceInit, initCount, holder, poisoned, cache, dlOk,
                   enc, vocab, result, calls, fsAccess, netCalls>>

UnknownNameAsIoError(n) == Err("InvalidTiktokenVocabFile", n)

\* LoadError::UnknownEncodingName(encoding_name.to_string())
UnknownNameError(n) == Err("UnknownEncodingName", n)

AfterFromNameDeferred(e) == "parse"

\* the ? after ok_or_else: an unknown name returns at once
AfterFromName(e) == IF e = None THEN "done" ELSE "parse"

\* Encoding::from_name(encoding_name).ok_or_else(..)?
FileFromName(t) ==
    /\ pc[t] = "from_name"
    /\ calls' = [calls EXCEPT ![t] = Append(@, "from_name")]
    /\ LET e == from_name(name[t]) IN
          /\ enc' = [enc EXCEPT ![t] = e]
          /\ result' = [result EXCEPT ![t] = IF e = None THEN UnknownNameError(name[t]) ELSE @]
          /\ pc' = [pc EXCEPT ![t] = AfterFromName(e)]
    /\ UNCHANGED mutexRef
    /\ UNCHANGED <<shared, op, name, path, vocab, fsAccess, netCalls>>

ParseErrorAsBuilderError(r) == Err("CoreBPECreationFailed", r.err)

\* .map_err(LoadError::InvalidTiktokenVocabFile)
MapParseError(r) == Err("InvalidTiktokenVocabFile", r.err)

\* load_tiktoken_vocab_file(&path, None).map_err(LoadError::InvalidTiktokenVocabFile)?
FileParse(t) ==
    /\ pc[t] = "parse"
    /\ calls' = [calls EXCEPT ![t] = Append(@, "load_tiktoken_vocab_file")]
    /\ fsAccess' = [fsAccess EXCEPT ![t] = @ + 1]
    /\ LET r == load_tiktoken_vocab_file(path[t]) IN
          IF r.ok
             THEN /\ vocab' = [vocab EXCEPT ![t] = r.vocab]
                  /\ pc' = [pc EXCEPT ![t] = "build"]
                  /\ UNCHANGED result
             ELSE /\ result' = [result EXCEPT ![t] = MapParseError(r)]
                  /\ pc' = [pc EXCEPT ![t] = "done"]
                  /\ UNCHANGED vocab
    /\ UNCHANGED mutexRef
    /\ UNCHANGED <<shared, op, name, path, enc, netCalls>>

ArmCollaboratorFallback(e) ==
    IF e \in {"O200kHarmony", "O200kBase"} THEN "CoreBPE::new" ELSE "load_from_name"

\* every match arm ends in CoreBPE::new
ArmCollaborator(e) == "CoreBPE::new"

BuilderErrorAsVocabError(r) == IF r.ok THEN Ok(r.tok) ELSE Err("InvalidTiktokenVocabFile", r.err)

BuilderResultFirstCallOnly(r) ==
    IF r.ok /\ fileCalls = 1 THEN Ok(r.tok)
    ELSE Err("CoreBPECreationFailed", IF r.ok THEN "AlreadyLoaded" ELSE r.err)

\* CoreBPE::new(..).map_err(LoadError::CoreBPECreationFailed)
MapBuilderResult(r) == IF r.ok THEN Ok(r.tok) ELSE Err("CoreBPECreationFailed", r.err)

\* match encoding { .. }: specials is moved into CoreBPE::new
FileBuild(t) ==
    /\ pc[t] = "build"
    /\ calls' = [calls EXCEPT ![t] = Append(@, ArmCollaborator(enc[t]))]
    /\ \E s \in {AssembleSpecials(catalog, enc[t])} :
          result' = [result EXCEPT ![t] =
                        MapBuilderResult(CoreBPENew(vocab[t], s, pattern(enc[t])))]
    /\ pc' = [pc EXCEPT ![t] = "done"]
    /\ UNCHANGED mutexRef
    /\ UNCHANGED <<shared, op, name, path, enc, vocab, fsAccess, netCalls>>

Next ==
    \/ \E t \in Threads, n \in OnlineNames : SafeStart(t, n)
    \/ \E t \in Threads : GetOrInit(t)
    \/ \E t \in Threads : Lock(t)
    \/ \E t \in Threads : PipeResolve(t)
    \/ \E t \in Threads : PipeCheckCache(t)
    \/ \E t \in Threads : PipeDownload(t)
    \/ \E t \in Threads : PipeWriteBegin(t)
    \/ \E t \in Threads : PipeWriteEnd(t)
    \/ \E t \in Threads : PipeConstruct(t)
    \/ \E t \in Threads : Return(t)
    \/ \E t \in Threads : PipePanic(t)
    \/ \E t \in Threads, p \in Paths, n \in EncodingNames : FileStart(t, p, n)
    \/ \E t \in Threads : FileFromName(t)
    \/ \E t \in Threads : FileParse(t)
    \/ \E t \in Threads : FileBuild(t)

Spec == Init /\ [][Next]_vars

(***************************************************************************)
(* Concurrent calls of load_harmony_encoding_safe alone.  Every started    *)
(* thread keeps being scheduled, so each step of a call that stays enabled *)
(* is eventually taken; starting a call and panicking are never forced.    *)
(***************************************************************************)
SafeFairness ==
    \A t \in Threads :
        /\ WF_vars(GetOrInit(t))
        /\ WF_vars(Lock(t))
        /\ WF_vars(PipeResolve(t))
        /\ WF_vars(PipeCheckCache(t))
        /\ WF_vars(PipeDownload(t))
        /\ WF_vars(PipeWriteBegin(t))
        /\ WF_vars(PipeWriteEnd(t))
        /\ WF_vars(PipeConstruct(t))
        /\ WF_vars(Return(t))

NextSafe ==
    \/ \E t \in Threads, n \in OnlineNames : SafeStart(t, n)
    \/ \E t \in Threads : GetOrInit(t)
    \/ \E t \in Threads : Lock(t)
    \/ \E t \in Threads : PipeResolve(t)
    \/ \E t \in Threads : PipeCheckCache(t)
    \/ \E t \in Threads : PipeDownload(t)
    \/ \E t \in Threads : PipeWriteBegin(t)
    \/ \E t \in Threads : PipeWriteEnd(t)
    \/ \E t \in Threads : PipeConstruct(t)
    \/ \E t \in Threads : Return(t)
    \/ \E t \in Threads : PipePanic(t)

\* online calls whose pipeline may panic
FairSafeSpec == Init /\ [][NextSafe]_vars /\ SafeFairness

NextTerminating ==
    \/ \E t \in Threads, n \in OnlineNames : SafeStart(t, n)
    \/ \E t \in Threads : GetOrInit(t)
    \/ \E t \in Threads : Lock(t)
    \/ \E t \in Threads : PipeResolve(t)
    \/ \E t \in Threads : PipeCheckCache(t)
    \/ \E t \in Threads : PipeDownload(t)
    \/ \E t \in Threads : PipeWriteBegin(t)
    \/ \E t \in Threads : PipeWriteEnd(t)
    \/ \E t \in Threads : PipeConstruct(t)
    \/ \E t \in Threads : Return(t)

\* online calls whose pipeline invocations all terminate
TerminatingSpec == Init /\ [][NextTerminating]_vars /\ SafeFairness

TypeOK ==
    /\ holder \in Threads \cup {NoThread}
    /\ \A t \in Threads : result[t].kind \in {"none", "Ok", "Err"}

(***************************************************************************)
(* Vocabulary of the properties.                                           *)
(***************************************************************************)
Safe(t) == op[t] = "safe"

File(t) == op[t] = "file"

Returned(t) == pc[t] = "done"

InPipeline(t) == pc[t] \in PipelinePcs

\* the offline call reached CoreBPE::new
Built(t) == File(t) /\ Returned(t) /\ Len(calls[t]) = 3

\* threads in the middle of writing the cache entry of e
Writers(e) == {t \in Threads : pc[t] = "write_end" /\ enc[t] = e}

BaseIds(e) == SpecialIds(special_tokens(catalog, e))

\* the reserved-range policy [a, b] of each variant, as the design document states it
PolicyIds(e) ==
    CASE e = "O200kHarmony" -> 200014..201088
      [] e = "O200kBase"    -> 199998..201088
      [] OTHER              -> {}

\* the special tokens the offline call of t hands to CoreBPE::new
Handed(t) == AssembleSpecials(catalog, enc[t])

Entries(s) == {s[i] : i \in DOMAIN s}

(***************************************************************************)
(* C1: at most one thread is inside the call to Encoding::load_from_name   *)
(* in every reachable state, whatever names the callers pass.              *)
(***************************************************************************)
C1_MutualExclusion ==
    \A t, u \in Threads : (t # u /\ InPipeline(t)) => ~InPipeline(u)

\* one caller is inside the pipeline while a caller with another name waits
C1_Witness ==
    \E t, u \in Threads :
        /\ InPipeline(t) /\ pc[u] = "lock" /\ Safe(u)
        /\ name[t] # name[u]

(***************************************************************************)
(* C2: a caller that has returned from load_harmony_encoding_safe, with a  *)
(* tokenizer or with a pipeline error, does not hold the mutex; the mutex  *)
(* is held only by a thread that is still inside the function body.        *)
(***************************************************************************)
C2_ReleasedOnReturn ==
    /\ \A t \in Threads : (Safe(t) /\ Returned(t)) => holder # t
    /\ holder # NoThread => pc[holder] \in GuardedPcs

\* a caller returned a pipeline error and a later caller owns the mutex
C2_Witness ==
    \E t, u \in Threads :
        /\ Safe(t) /\ Returned(t) /\ result[t].kind = "Err"
        /\ u # t /\ holder = u

(***************************************************************************)
(* C3: every pipeline step (resolution, cache check, download, cache       *)
(* write, construction) of a caller runs while that caller owns the mutex, *)
(* and the mutex is given up only from the end of the function body or by  *)
(* a panic.                                                                *)
(***************************************************************************)
C3_GuardCoversPipeline ==
    /\ \A t \in Threads : pc[t] \in GuardedPcs => holder = t
    /\ \A t \in Threads : (Safe(t) /\ pc[t] \in {"get_or_init", "lock"}) => calls[t] = <<>>

\* a caller is constructing under the mutex while another caller waits
C3_Witness ==
    \E t, u \in Threads :
        /\ pc[t] = "construct" /\ holder = t
        /\ pc[u] = "lock"

(***************************************************************************)
(* C4: no two threads are writing a cache entry at the same time, and no   *)
(* caller issues a download for an encoding whose download has succeeded.  *)
(***************************************************************************)
C4_NoCacheRace ==
    /\ \A e \in Variants : Cardinality(Writers(e)) <= 1
    /\ \A e \in Variants : dlOk[e] <= 1
    /\ \A t \in Threads : pc[t] = "download" => dlOk[enc[t]] = 0

\* after one caller downloaded and returned, a second caller of the same
\* name goes from the cache check to construction without a download
C4_Witness ==
    \E t, u \in Threads :
        /\ t # u /\ Safe(t) /\ Safe(u) /\ name[t] = name[u]
        /\ Returned(t) /\ netCalls[t] = 1 /\ result[t].kind = "Ok"
        /\ pc[u] = "construct" /\ netCalls[u] = 0

(***************************************************************************)
(* C5: callers of load_harmony_encoding_safe with the same name that have  *)
(* returned hold equal tokenizers if both succeeded and equal errors if    *)
(* both failed, and no returned tokenizer was built from a partly written  *)
(* cache entry.                                                            *)
(***************************************************************************)
C5_SameNameSameOutcome ==
    /\ \A t \in Threads :
          (Safe(t) /\ Returned(t) /\ result[t].kind = "Ok") => result[t].tok.intact
    /\ \A t, u \in Threads :
          (Safe(t) /\ Safe(u) /\ Returned(t) /\ Returned(u) /\ name[t] = name[u]
             /\ result[t].kind = result[u].kind)
          => result[t] = result[u]

\* two concurrent callers of one name have both returned a tokenizer
C5_Witness ==
    \E t, u \in Threads :
        /\ t # u /\ Safe(t) /\ Safe(u) /\ name[t] = name[u]
        /\ Returned(t) /\ Returned(u)
        /\ result[t].kind = "Ok" /\ result[u].kind = "Ok"

(***************************************************************************)
(* C6: an offline call with a name outside the catalog ends, right after   *)
(* the lookup, with UnknownEncodingName and without any file-system        *)
(* access, whatever the path; the vocabulary parser runs only for a        *)
(* resolved encoding.                                                      *)
(***************************************************************************)
C6_UnknownNameFailsFast ==
    /\ \A t \in Threads :
          (File(t) /\ from_name(name[t]) = None /\ pc[t] # "from_name")
          => /\ Returned(t)
             /\ result[t] = Err("UnknownEncodingName", name[t])
             /\ fsAccess[t] = 0
             /\ calls[t] = <<"from_name">>
    /\ \A t \in Threads : (File(t) /\ fsAccess[t] > 0) => enc[t] \in Variants

\* an unknown name with an existing, well-formed file has returned
C6_Witness ==
    \E t \in Threads :
        /\ File(t) /\ Returned(t)
        /\ name[t] = "bogus" /\ path[t] = "good.tiktoken"

(***************************************************************************)
(* C7: an offline call makes no network request and invokes only the name  *)
(* catalog, the vocabulary-file parser and the tokenizer builder.          *)
(***************************************************************************)
C7_OfflineNoNetwork ==
    \A t \in Threads :
        File(t) => /\ netCalls[t] = 0
                   /\ \A i \in DOMAIN calls[t] :
                         calls[t][i] \in {"from_name", "load_tiktoken_vocab_file", "CoreBPE::new"}

\* an offline call of the default-style variant ran to its end
C7_Witness ==
    \E t \in Threads :
        /\ Built(t) /\ enc[t] = "Cl100kBase" /\ result[t].kind = "Ok"

(***************************************************************************)
(* C8 as stated: for O200kHarmony and O200kBase the special tokens handed  *)
(* to CoreBPE::new have the id set base ids + [a, b], no id twice, and no  *)
(* id of the parsed vocabulary.                                            *)
(***************************************************************************)
C8_AsStated ==
    \A t \in Threads :
        (Built(t) /\ enc[t] \in {"O200kHarmony", "O200kBase"})
        => /\ SpecialIds(Handed(t)) = BaseIds(enc[t]) \cup PolicyIds(enc[t])
           /\ ~HasDuplicateId(Handed(t))
           /\ SpecialIds(Handed(t)) \cap VocabIds(vocab[t]) = {}

(***************************************************************************)
(* C8 amended: for O200kHarmony and O200kBase the special tokens handed to *)
(* CoreBPE::new have the id set base ids + [a, b] exactly; if the call     *)
(* returns a tokenizer, its special tokens are the ones handed over, no id *)
(* occurs twice in them and none is an id of its vocabulary.               *)
(***************************************************************************)
C8_IdSetExact ==
    \A t \in Threads :
        (Built(t) /\ enc[t] \in {"O200kHarmony", "O200kBase"})
        => /\ SpecialIds(Handed(t)) = BaseIds(enc[t]) \cup PolicyIds(enc[t])
           /\ result[t].kind = "Ok"
                 => /\ result[t].tok.specials = Handed(t)
                    /\ ~HasDuplicateId(Handed(t))
                    /\ SpecialIds(Handed(t)) \cap VocabIds(result[t].tok.vocab) = {}

\* both reserved-range variants have been built from a clean vocabulary
C8_Witness ==
    \E t, u \in Threads :
        /\ Built(t) /\ enc[t] = "O200kHarmony" /\ result[t].kind = "Ok"
        /\ Built(u) /\ enc[u] = "O200kBase" /\ result[u].kind = "Ok"

(***************************************************************************)
(* C9: an offline load of "o200k_harmony" that returns a tokenizer gives   *)
(* it |base specials| + 1075 special tokens, and the ids that are not base *)
(* ids are exactly 200014..=201088.                                        *)
(***************************************************************************)
C9_HarmonyCardinality ==
    \A t \in Threads :
        (Built(t) /\ name[t] = "o200k_harmony" /\ result[t].kind = "Ok")
        => /\ Cardinality(Entries(result[t].tok.specials))
                 = Len(special_tokens(catalog, "O200kHarmony")) + 1075
           /\ SpecialIds(result[t].tok.specials) \ BaseIds("O200kHarmony") = 200014..201088

\* "o200k_harmony" was loaded from a valid vocabulary file
C9_Witness ==
    \E t \in Threads :
        /\ Built(t) /\ name[t] = "o200k_harmony" /\ path[t] = "good.tiktoken"
        /\ result[t].kind = "Ok"

(***************************************************************************)
(* C10: when the parsed vocabulary holds an id of the assembled special    *)
(* tokens, or the assembled special tokens hold an id twice, the offline   *)
(* call returns CoreBPECreationFailed and no tokenizer, for every variant; *)
(* a returned tokenizer is whole: it owns the parsed vocabulary, the       *)
(* assembled special tokens and the variant's pattern.                     *)
(***************************************************************************)
C10_CollisionFails ==
    \A t \in Threads :
        Built(t) =>
           /\ (SpecialIds(Handed(t)) \cap VocabIds(vocab[t]) # {} \/ HasDuplicateId(Handed(t)))
                 => /\ result[t].kind = "Err"
                    /\ result[t].err = "CoreBPECreationFailed"
           /\ result[t].kind = "Ok"
                 => result[t].tok = [vocab |-> vocab[t], specials |-> Handed(t),
                                     pattern |-> pattern(enc[t]), intact |-> TRUE]

\* a vocabulary id collided with a special id of the default-style variant,
\* and a reserved-range variant was assembled with an id twice
C10_Witness ==
    \E t, u \in Threads :
        /\ Built(t) /\ enc[t] = "Cl100kBase"
        /\ SpecialIds(Handed(t)) \cap VocabIds(vocab[t]) # {}
        /\ Built(u) /\ enc[u] \in {"O200kHarmony", "O200kBase"}
        /\ (HasDuplicateId(Handed(u)) \/ SpecialIds(Handed(u)) \cap VocabIds(vocab[u]) # {})

(***************************************************************************)
(* C11: every request moves through NotLoaded, Resolving, VocabAcquiring,  *)
(* Constructing, Ready in that order without skipping a step; Error is     *)
(* entered only from Resolving, VocabAcquiring or Constructing; nothing    *)
(* leaves Error or Ready; Ready is reached only with the name resolved,    *)
(* the vocabulary acquired and the construction succeeded.  A panic ends   *)
(* the thread without a result and is no state of the request.             *)
(***************************************************************************)
Phase(t) ==
    CASE pc[t] \in {"idle", "get_or_init", "lock"}                          -> "NotLoaded"
      [] pc[t] \in {"resolve", "from_name"}                                 -> "Resolving"
      [] pc[t] \in {"check_cache", "download", "write_begin", "write_end", "parse"} -> "VocabAcquiring"
      [] pc[t] \in {"construct", "build"}                                   -> "Constructing"
      [] pc[t] \in {"drop", "done"} /\ result[t].kind = "Ok"                -> "Ready"
      [] pc[t] \in {"drop", "done"} /\ result[t].kind = "Err"               -> "Error"
      [] OTHER                                                              -> "Aborted"

PhaseStep(a, b) ==
    \/ a = b
    \/ a = "NotLoaded"      /\ b \in {"Resolving", "Aborted"}
    \/ a = "Resolving"      /\ b \in {"VocabAcquiring", "Error", "Aborted"}
    \/ a = "VocabAcquiring" /\ b \in {"Constructing", "Error", "Aborted"}
    \/ a = "Constructing"   /\ b \in {"Ready", "Error", "Aborted"}

C11_StateMachineSteps ==
    \A t \in Threads :
        /\ PhaseStep(Phase(t), Phase(t)')
        /\ Phase(t) \in {"Ready", "Error"} => result[t]' = result[t]
        /\ result[t]'.kind = "Err" => Phase(t)' = "Error"
        /\ Phase(t)' = "Ready" =>
              /\ enc[t]' \in Variants
              /\ File(t) => /\ load_tiktoken_vocab_file(path[t]).ok
                            /\ calls[t]' = <<"from_name", "load_tiktoken_vocab_file", "CoreBPE::new">>
              /\ Safe(t) => cache[enc[t]'] = "complete"

C11_StateMachine == [][C11_StateMachineSteps]_vars

\* an offline request is Ready and another ended in Error from VocabAcquiring
C11_Witness ==
    \E t, u \in Threads :
        /\ File(t) /\ Returned(t) /\ Phase(t) = "Ready"
        /\ File(u) /\ Returned(u) /\ Phase(u) = "Error"
        /\ result[u].err = "InvalidTiktokenVocabFile"

(***************************************************************************)
(* C12: for a known name, a failure of the vocabulary-file parser ends the *)
(* offline call with InvalidTiktokenVocabFile carrying the parser's error, *)
(* and CoreBPE::new is not invoked in that call.                           *)
(***************************************************************************)
C12_ParseFailureSurfaces ==
    \A t \in Threads :
        (File(t) /\ from_name(name[t]) # None /\ ~load_tiktoken_vocab_file(path[t]).ok
           /\ pc[t] \notin {"from_name", "parse"})
        => /\ Returned(t)
           /\ result[t] = Err("InvalidTiktokenVocabFile", load_tiktoken_vocab_file(path[t]).err)
           /\ calls[t] = <<"from_name", "load_tiktoken_vocab_file">>

\* a known name was loaded from a missing file and from an unparsable file
C12_Witness ==
    \E t, u \in Threads :
        /\ File(t) /\ Returned(t) /\ enc[t] \in Variants /\ path[t] = "missing.tiktoken"
        /\ File(u) /\ Returned(u) /\ enc[u] \in Variants /\ path[u] = "corrupt.tiktoken"

(***************************************************************************)
(* C13: load_harmony_encoding_safe returns the very value the pipeline     *)
(* produced in that call, tokenizer or error, after exactly one pipeline   *)
(* invocation; the value is not changed by returning nor afterwards.       *)
(***************************************************************************)
C13_ReturnSteps ==
    \A t \in Threads :
        /\ (pc[t] = "drop" /\ pc[t]' = "done") => result[t]' = result[t]
        /\ (Safe(t) /\ Returned(t)) => result[t]' = result[t]
        /\ (Safe(t)' /\ Returned(t)')
              => /\ result[t]'.kind \in {"Ok", "Err"}
                 /\ calls[t]' = <<"load_from_name">>
                 /\ (from_name(name[t]') = None) => result[t]' = Err("UnknownEncodingName", name[t]')

C13_PipelineValueReturned == [][C13_ReturnSteps]_vars

\* one online call returned the pipeline's error and another its tokenizer
C13_Witness ==
    \E t, u \in Threads :
        /\ Safe(t) /\ Returned(t) /\ result[t].kind = "Err" /\ result[t].err = "DownloadFailed"
        /\ Safe(u) /\ Returned(u) /\ result[u].kind = "Ok" /\ name[u] = "o200k_harmony"

(***************************************************************************)
(* C17: the mutex does not exist before the first call of                  *)
(* load_harmony_encoding_safe passes get_or_init, is created exactly once  *)
(* even when callers race on their first call, is never replaced or        *)
(* destroyed, and every caller locks that one instance.                    *)
(***************************************************************************)
C17_SingletonSteps ==
    /\ initCount <= 1
    /\ onceInit <=> initCount = 1
    /\ ~onceInit => \A t \in Threads : pc[t] \in {"idle", "get_or_init"} \/ File(t)
    /\ \A t \in Threads : (Safe(t) /\ pc[t] # "get_or_init") => mutexRef[t] = 1
    /\ \A t \in Threads : holder = t => mutexRef[t] = 1
    /\ onceInit => (onceInit' /\ initCount' = initCount)
    /\ \A t \in Threads : mutexRef[t] # 0 => mutexRef[t]' = mutexRef[t]

C17_LazySingleton == [][C17_SingletonSteps]_vars

\* two callers raced through get_or_init before either took the lock, and
\* one of them is now inside the pipeline while the other waits
C17_Witness ==
    \E t, u \in Threads :
        /\ t # u /\ InPipeline(t) /\ pc[u] = "lock"
        /\ mutexRef[t] = 1 /\ mutexRef[u] = 1 /\ initCount = 1

(***************************************************************************)
(* C14: a panic inside the guarded section releases and poisons the mutex  *)
(* for good; from then on no caller enters the pipeline or returns a       *)
(* value, whatever its name: every caller that reaches the lock, and every *)
(* caller already waiting there, panics at the lock.                       *)
(***************************************************************************)
C14_PoisonSteps ==
    /\ poisoned => poisoned'
    /\ poisoned => (holder = NoThread /\ \A t \in Threads : pc[t] \notin GuardedPcs)
    /\ \A t \in Threads :
          /\ (InPipeline(t) /\ pc[t]' = "panicked") => (poisoned' /\ holder' = NoThread)
          /\ (poisoned /\ pc[t] = "lock" /\ pc[t]' # "lock")
                => (pc[t]' = "panicked" /\ calls[t]' = <<>> /\ result[t]' = NoResult)
          /\ (poisoned /\ ~Returned(t)) => ~Returned(t)'

C14_PoisonIsFatal ==
    /\ [][C14_PoisonSteps]_vars
    /\ \A t \in Threads : (poisoned /\ pc[t] \in {"get_or_init", "lock"}) ~> (pc[t] = "panicked")

\* one caller panicked inside the pipeline and a caller that was waiting
\* at the lock has panicked there without invoking the pipeline
C14_Witness ==
    \E t, u \in Threads :
        /\ poisoned /\ pc[t] = "panicked" /\ calls[t] = <<"load_from_name">>
        /\ Safe(u) /\ pc[u] = "panicked" /\ calls[u] = <<>> /\ name[u] # name[t]

(***************************************************************************)
(* C16: a waiting caller enters the guarded section only from a state in   *)
(* which no other caller owns the mutex, and when every pipeline           *)
(* invocation terminates every started call eventually returns.            *)
(***************************************************************************)
C16_AdmissionSteps ==
    \A t \in Threads :
        (pc[t] = "lock" /\ pc[t]' = "resolve")
        => (holder = NoThread /\ \A u \in Threads : pc[u] \notin GuardedPcs)

C16_EveryCallReturns ==
    /\ [][C16_AdmissionSteps]_vars
    /\ \A t \in Threads : (pc[t] = "get_or_init") ~> Returned(t)

\* every thread made an online call and all of them have returned, one of
\* them with an error
C16_Witness ==
    /\ \A t \in Threads : Safe(t) /\ Returned(t)
    /\ \E t \in Threads : result[t].kind = "Err"

(***************************************************************************)
(* C15: a step of load_harmony_encoding_from_file changes neither the      *)
(* mutex nor any other shared state, and it never waits: the call can be   *)
(* started and can take its next step whatever the state of the mutex, in  *)
(* particular while an online caller owns it, and each step brings the     *)
(* call nearer to its return, so it returns even if that owner never moves *)
(* again.                                                                  *)
(***************************************************************************)
FileRank(t) ==
    CASE pc[t] = "idle"      -> 0
      [] pc[t] = "from_name" -> 1
      [] pc[t] = "parse"     -> 2
      [] pc[t] = "build"     -> 3
      [] OTHER               -> 4

C15_NeverWaits ==
    \A t \in Threads :
        /\ (pc[t] = "idle" /\ fileCalls < MaxFileCalls)
              => \A p \in Paths, n \in EncodingNames : ENABLED FileStart(t, p, n)
        /\ (File(t) /\ pc[t] = "from_name") => ENABLED FileFromName(t)
        /\ (File(t) /\ pc[t] = "parse") => ENABLED FileParse(t)
        /\ (File(t) /\ pc[t] = "build" /\ (holder # NoThread \/ poisoned)) => ENABLED FileBuild(t)

C15_OfflineSteps ==
    \A t \in Threads :
        (File(t)' /\ pc[t]' # pc[t])
        => /\ UNCHANGED <<onceInit, initCount, holder, poisoned, cache, dlOk, mutexRef>>
           /\ FileRank(t)' > FileRank(t)

C15_OfflineIndependent == []C15_NeverWaits /\ [][C15_OfflineSteps]_vars

\* an offline call is at the builder while an online caller inside the
\* pipeline owns the mutex
C15_Witness ==
    \E t, w \in Threads :
        /\ File(t) /\ pc[t] = "build"
        /\ InPipeline(w) /\ holder = w

(***************************************************************************)
(* C18: for a known variant other than O200kHarmony and O200kBase the      *)
(* special tokens handed to CoreBPE::new, and those of the returned        *)
(* tokenizer, are the variant's base special tokens, entry for entry.      *)
(***************************************************************************)
C18_DefaultArmBaseOnly ==
    \A t \in Threads :
        (Built(t) /\ enc[t] \in Variants \ {"O200kHarmony", "O200kBase"})
        => /\ Handed(t) = special_tokens(catalog, enc[t])
           /\ result[t].kind = "Ok" => result[t].tok.specials = special_tokens(catalog, enc[t])

\* the default-style variant was loaded from a clean vocabulary
C18_Witness ==
    \E t \in Threads :
        /\ Built(t) /\ name[t] = "cl100k_base" /\ path[t] = "good.tiktoken"
        /\ result[t].kind = "Ok"

(***************************************************************************)
(* C19: when the O200kHarmony or O200kBase arm runs, the base entries come *)
(* first and unchanged, followed by exactly one entry                      *)
(* ("<|reserved_{id}|>", id) for each id of the interval in rising order:  *)
(* the generated names are pairwise distinct, the generated ids are        *)
(* pairwise distinct, and there are 1075 resp. 1091 of them.               *)
(***************************************************************************)
GeneratedAsStated(g, lo, n) ==
    /\ Len(g) = n
    /\ \A i \in 1..n : g[i] = <<"<|reserved_" \o ToString(lo + i - 1) \o "|>", lo + i - 1>>
    /\ Cardinality({g[i][1] : i \in 1..n}) = n
    /\ Cardinality({g[i][2] : i \in 1..n}) = n
    /\ {g[i][2] : i \in 1..n} = lo..201088

HarmonyGeneratedAsStated == GeneratedAsStated(HarmonyReserved, 200014, 1075)

BaseGeneratedAsStated == GeneratedAsStated(BaseReserved, 199998, 1091)

C19_ReservedSteps ==
    \A t \in Threads :
        (pc[t] = "build" /\ pc[t]' = "done" /\ enc[t] \in {"O200kHarmony", "O200kBase"})
        => LET s == Handed(t)
               b == special_tokens(catalog, enc[t])
           IN  /\ SubSeq(s, 1, Len(b)) = b
               /\ enc[t] = "O200kHarmony"
                     => /\ SubSeq(s, Len(b) + 1, Len(s)) = HarmonyReserved
                        /\ HarmonyGeneratedAsStated
               /\ enc[t] = "O200kBase"
                     => /\ SubSeq(s, Len(b) + 1, Len(s)) = BaseReserved
                        /\ BaseGeneratedAsStated
               /\ result[t]'.kind = "Ok" => result[t]'.tok.specials = s

C19_ReservedBijection == [][C19_ReservedSteps]_vars

\* both reserved-range arms have run
C19_Witness ==
    \E t, u \in Threads :
        /\ Built(t) /\ enc[t] = "O200kHarmony"
        /\ Built(u) /\ enc[u] = "O200kBase"

(***************************************************************************)
(* C20: two offline calls with the same encoding name and the same file    *)
(* return the same value, tokenizer or error, however their steps were     *)
(* interleaved with each other and with other calls; a returned value      *)
(* never changes afterwards.                                               *)
(***************************************************************************)
C20_SameInputsSameValue ==
    \A t, u \in Threads :
        (File(t) /\ File(u) /\ Returned(t) /\ Returned(u)
           /\ name[t] = name[u] /\ path[t] = path[u])
        => result[t] = result[u]

C20_DeterministicSteps ==
    \A t \in Threads : (File(t) /\ Returned(t)) => result[t]' = result[t]

C20_OfflineDeterministic ==
    []C20_SameInputsSameValue /\ [][C20_DeterministicSteps]_vars

\* two offline calls of the same name and file have both returned a
\* tokenizer
C20_Witness ==
    \E t, u \in Threads :
        /\ t # u /\ Built(t) /\ Built(u)
        /\ name[t] = name[u] /\ path[t] = path[u]
        /\ result[t].kind = "Ok" /\ result[u].kind = "Ok"

====
